---- MODULE Spec2Model ----
(***************************************************************************)
(* A model of the WRP test framework: src/test_wrp_framework.py (the       *)
(* process driver and the robustness runner) and src/test_wrp_helpers.py   *)
(* (the transcript segmenter, the JSON extractor, the response validator). *)
(*                                                                         *)
(* Text is a sequence of tokens, each token a literal piece of the text;   *)
(* the text a sequence stands for is the concatenation of its tokens.      *)
(* Only FENCE is not spelled as its text: it stands for three backticks.    *)
(***************************************************************************)
EXTENDS Integers, Sequences, FiniteSets, TLC

\* ------------------------------------------------------------------ text

NL == "\n"
SP == " "
QUERY == "Query:"
EXITING == "Exiting"
DOTS == "..."
SESSION == "Session with"
\* the three-backtick fence delimiter (a string literal cannot hold a backtick)
FENCE == "<fence>"
JSONLABEL == "json"
PROSE == "x"
LBRACE == "{"
RBRACE == "}"
LBRACK == "["
RBRACK == "]"
COMMA == ","
KEY_A == "\"a\":"
KEY_B == "\"b\":"
STR_A == "\"a\""
NULL == "null"

Keys == {KEY_A, KEY_B}
Scalars == {STR_A, NULL}
Whitespace == {NL, SP}

Min(a, b) == IF a <= b THEN a ELSE b

\* s[i .. i+Len(pat)-1] = pat
HasAt(s, i, pat) ==
    /\ i >= 1
    /\ i + Len(pat) - 1 <= Len(s)
    /\ \A j \in 1..Len(pat) : s[i + j - 1] = pat[j]

\* str.find(pat, start): the first index >= start where pat occurs, 0 for -1
Find(s, pat, start) ==
    LET hits == {i \in start..Len(s) : HasAt(s, i, pat)}
    IN  IF hits = {} THEN 0 ELSE CHOOSE i \in hits : \A j \in hits : i <= j

\* str.strip()
Strip(s) ==
    LET solid == {i \in 1..Len(s) : s[i] \notin Whitespace}
    IN  IF solid = {} THEN <<>>
        ELSE SubSeq(s, CHOOSE i \in solid : \A j \in solid : i <= j,
                       CHOOSE i \in solid : \A j \in solid : i >= j)

\* ------------------------------------------------- transcript segmenter

\* Lookahead without the terminal markers
LookaheadQueryOnly(s, p) ==
    \/ HasAt(s, p, <<NL, QUERY>>)
    \/ p = Len(s) + 1

\* the lookahead (?=\nQuery:|\nSession with|\nExiting\.\.\.|\Z) at position p
Lookahead(s, p) ==
    \/ HasAt(s, p, <<NL, QUERY>>)
    \/ HasAt(s, p, <<NL, SESSION>>)
    \/ HasAt(s, p, <<NL, EXITING, DOTS>>)
    \/ p = Len(s) + 1

\* the end of the whitespace run that starts at i (the first index after it)
WsEnd(s, i) ==
    LET solid == {j \in i..Len(s) : s[j] \notin Whitespace}
    IN  IF solid = {} THEN Len(s) + 1
        ELSE CHOOSE j \in solid : \A k \in solid : j <= k

\* Query:\s*\n at i: where the captured group starts, 0 when there is no match.
\* The greedy \s* gives back up to the last newline of the whitespace run.
MarkerAt(s, i) ==
    IF i > Len(s) \/ s[i] # QUERY THEN 0
    ELSE LET newlines == {j \in (i + 1)..(WsEnd(s, i + 1) - 1) : s[j] = NL}
         IN  IF newlines = {} THEN 0
             ELSE (CHOOSE j \in newlines : \A k \in newlines : j >= k) + 1

\* (.*?) from c: the lazy group stops at the first position the lookahead accepts
SpanEnd(s, c) ==
    CHOOSE p \in c..(Len(s) + 1) :
        /\ Lookahead(s, p)
        /\ \A q \in c..(p - 1) : ~Lookahead(s, q)

\* re.findall(pattern, full_output, re.DOTALL) from position pos on
RECURSIVE FindAllSpans(_, _)
FindAllSpans(s, pos) ==
    LET starts == {i \in pos..Len(s) : MarkerAt(s, i) # 0}
    IN  IF starts = {} THEN <<>>
        ELSE LET i == CHOOSE i \in starts : \A j \in starts : i <= j
                 c == MarkerAt(s, i)
                 e == SpanEnd(s, c)
             IN  <<SubSeq(s, c, e - 1)>> \o FindAllSpans(s, e)

\* the filter of the loop over the matches
KeepSpan(cleaned) ==
    /\ cleaned # <<>>
    /\ cleaned[1] # EXITING
    /\ cleaned[1] # SESSION

RECURSIVE CleanSpans(_)
CleanSpans(matches) ==
    IF matches = <<>> THEN <<>>
    ELSE LET cleaned == Strip(Head(matches))
         IN  (IF KeepSpan(cleaned) THEN <<cleaned>> ELSE <<>>)
                 \o CleanSpans(Tail(matches))

extract_response_content(output) ==
    CleanSpans(FindAllSpans(output, 1))

\* ------------------------------------------------------------ json.loads

\* A parsed value is kept as its canonical text: no whitespace, the members
\* of an object in the order of KeyOrder, the last of a repeated key kept
\* (Python's dict), so that equal texts are equal values.
KeyOrder == <<KEY_A, KEY_B>>
NoMembers == [k \in Keys |-> <<>>]
Failed == [ok |-> FALSE, nxt |-> 0, val |-> <<>>]

RECURSIVE JoinMembers(_, _, _)
JoinMembers(m, i, first) ==
    IF i > Len(KeyOrder) THEN <<>>
    ELSE LET k == KeyOrder[i]
         IN  IF m[k] = <<>> THEN JoinMembers(m, i + 1, first)
             ELSE (IF first THEN <<>> ELSE <<COMMA>>) \o <<k>> \o m[k]
                      \o JoinMembers(m, i + 1, FALSE)

ObjectText(m) == <<LBRACE>> \o JoinMembers(m, 1, TRUE) \o <<RBRACE>>

RECURSIVE ParseValue(_, _)
RECURSIVE ParseElements(_, _, _)
RECURSIVE ParseMembers(_, _, _)

\* one JSON value of s (whitespace removed) at i
ParseValue(s, i) ==
    IF i > Len(s) THEN Failed
    ELSE IF s[i] \in Scalars THEN [ok |-> TRUE, nxt |-> i + 1, val |-> <<s[i]>>]
    ELSE IF s[i] = LBRACK THEN
        IF i + 1 <= Len(s) /\ s[i + 1] = RBRACK
        THEN [ok |-> TRUE, nxt |-> i + 2, val |-> <<LBRACK, RBRACK>>]
        ELSE ParseElements(s, i + 1, <<LBRACK>>)
    ELSE IF s[i] = LBRACE THEN
        IF i + 1 <= Len(s) /\ s[i + 1] = RBRACE
        THEN [ok |-> TRUE, nxt |-> i + 2, val |-> <<LBRACE, RBRACE>>]
        ELSE ParseMembers(s, i + 1, NoMembers)
    ELSE Failed

ParseElements(s, i, acc) ==
    LET v == ParseValue(s, i)
    IN  IF ~v.ok \/ v.nxt > Len(s) THEN Failed
        ELSE IF s[v.nxt] = COMMA
             THEN ParseElements(s, v.nxt + 1, acc \o v.val \o <<COMMA>>)
        ELSE IF s[v.nxt] = RBRACK
             THEN [ok |-> TRUE, nxt |-> v.nxt + 1, val |-> acc \o v.val \o <<RBRACK>>]
        ELSE Failed

ParseMembers(s, i, m) ==
    IF i > Len(s) \/ s[i] \notin Keys THEN Failed
    ELSE LET v == ParseValue(s, i + 1)
         IN  IF ~v.ok \/ v.nxt > Len(s) THEN Failed
             ELSE LET m2 == [m EXCEPT ![s[i]] = v.val]
                  IN  IF s[v.nxt] = COMMA THEN ParseMembers(s, v.nxt + 1, m2)
                      ELSE IF s[v.nxt] = RBRACE
                           THEN [ok |-> TRUE, nxt |-> v.nxt + 1, val |-> ObjectText(m2)]
                      ELSE Failed

\* json.loads(text): [ok, val]; ok = FALSE stands for JSONDecodeError
json_loads(text) ==
    LET s == SelectSeq(text, LAMBDA c : c \notin Whitespace)
        v == ParseValue(s, 1)
    IN  IF v.ok /\ v.nxt = Len(s) + 1 THEN [ok |-> TRUE, val |-> v.val]
        ELSE [ok |-> FALSE, val |-> <<>>]

IsObject(val) == val # <<>> /\ val[1] = LBRACE
IsArray(val) == val # <<>> /\ val[1] = LBRACK

\* the members of a parsed object as a function of Keys (<<>>: no such key)
RECURSIVE ObjectMembers(_, _, _)
ObjectMembers(val, i, m) ==
    IF i >= Len(val) THEN m
    ELSE LET v == ParseValue(val, i + 1)
         IN  ObjectMembers(val, v.nxt + 1, [m EXCEPT ![val[i]] = v.val])

\* the elements of a parsed array
RECURSIVE ArrayElements(_, _)
ArrayElements(val, i) ==
    IF i >= Len(val) THEN <<>>
    ELSE LET v == ParseValue(val, i)
         IN  <<v.val>> \o ArrayElements(val, v.nxt + 1)

\* -------------------------------------------------------- JSON extractor

PREVIEW_CHARS == 500

Braces == {LBRACE, RBRACE}

\* [^{}]* from i: the first index at or after i that holds a brace
SkipPlain(s, i) ==
    LET stops == {j \in i..Len(s) : s[j] \in Braces}
    IN  IF stops = {} THEN Len(s) + 1
        ELSE CHOOSE j \in stops : \A k \in stops : j <= k

\* (?:\{[^{}]*\}[^{}]*)*\} from j (a brace or the end): the index of the
\* closing brace of the match, 0 when there is none
RECURSIVE BraceGroups(_, _)
BraceGroups(s, j) ==
    IF j > Len(s) THEN 0
    ELSE IF s[j] = RBRACE THEN j
    ELSE LET close == SkipPlain(s, j + 1)
         IN  IF close > Len(s) \/ s[close] # RBRACE THEN 0
             ELSE BraceGroups(s, SkipPlain(s, close + 1))

\* \{[^{}]*(?:\{[^{}]*\}[^{}]*)*\} at i: the index of its last token, or 0
BraceMatchEnd(s, i) ==
    IF i > Len(s) \/ s[i] # LBRACE THEN 0
    ELSE BraceGroups(s, SkipPlain(s, i + 1))

\* re.findall(json_pattern, response, re.DOTALL) from pos on
RECURSIVE FindAllBraces(_, _)
FindAllBraces(s, pos) ==
    LET starts == {i \in pos..Len(s) : BraceMatchEnd(s, i) # 0}
    IN  IF starts = {} THEN <<>>
        ELSE LET i == CHOOSE i \in starts : \A j \in starts : i <= j
                 e == BraceMatchEnd(s, i)
             IN  <<SubSeq(s, i, e)>> \o FindAllBraces(s, e + 1)

\* the number of characters of a token
Width(tok) ==
    CASE tok \in {QUERY} -> 6
      [] tok \in {EXITING} -> 7
      [] tok \in {SESSION} -> 12
      [] tok \in {DOTS, FENCE, STR_A} -> 3
      [] tok \in {JSONLABEL, NULL, KEY_A, KEY_B} -> 4
      [] OTHER -> 1

\* the number of characters of s[lo..hi]
RECURSIVE TextLen(_, _, _)
TextLen(s, lo, hi) ==
    IF lo > hi THEN 0
    ELSE IF lo = hi THEN Width(s[lo])
    ELSE LET mid == (lo + hi) \div 2
         IN  TextLen(s, lo, mid) + TextLen(s, mid + 1, hi)

\* the largest k in lo..hi with s[1..k] of at most n characters
RECURSIVE WholeTokens(_, _, _, _)
WholeTokens(s, n, lo, hi) ==
    IF lo = hi THEN lo
    ELSE LET mid == (lo + hi + 1) \div 2
         IN  IF TextLen(s, 1, mid) <= n THEN WholeTokens(s, n, mid, hi)
             ELSE WholeTokens(s, n, lo, mid - 1)

\* response[:n]: the whole tokens that fit, and how many characters of the
\* token after them are kept
Preview(s, n) ==
    LET whole == WholeTokens(s, n, 0, Len(s))
    IN  [whole |-> whole,
         cut |-> IF whole = Len(s) THEN 0 ELSE n - TextLen(s, 1, whole)]

Attempt(strategy, detail) == [strategy |-> strategy, detail |-> detail]
Found(val) == [ok |-> TRUE, val |-> val, attempts |-> <<>>]
NotFound(attempts) == [ok |-> FALSE, val |-> <<>>, attempts |-> attempts]

\* try: return json.loads(...) except json.JSONDecodeError: attempts.append(...)
Loaded(parsed, strategy) ==
    IF parsed.ok THEN Found(parsed.val)
    ELSE NotFound(<<Attempt(strategy, "JSONDecodeError")>>)

\* FencedBlock passing over an opener that is not closed
FencedBlockSkipsUnclosed(resp, opener, strategy) ==
    IF Find(resp, opener, 1) = 0 THEN NotFound(<<>>)
    ELSE LET start == Find(resp, opener, 1) + Len(opener)
             end == Find(resp, <<FENCE>>, start)
         IN  IF end # 0
             THEN Loaded(json_loads(Strip(SubSeq(resp, start, end - 1))), strategy)
             ELSE NotFound(<<>>)

\* a fenced block opened by `opener`: [ok, val, attempts]
FencedBlock(resp, opener, strategy) ==
    IF Find(resp, opener, 1) = 0 THEN NotFound(<<>>)
    ELSE LET start == Find(resp, opener, 1) + Len(opener)
             end == Find(resp, <<FENCE>>, start)
         IN  IF end # 0
             THEN Loaded(json_loads(Strip(SubSeq(resp, start, end - 1))), strategy)
             ELSE NotFound(<<Attempt(strategy, "no closing fence")>>)

\* the loop over the brace-pattern matches, from the i-th on
RECURSIVE TryMatches(_, _, _)
TryMatches(matches, i, attempts) ==
    IF i > Len(matches) THEN NotFound(attempts)
    ELSE IF json_loads(Strip(matches[i])).ok
         THEN Found(json_loads(Strip(matches[i])).val)
    ELSE TryMatches(matches, i + 1,
                    attempts \o <<Attempt("Regex pattern match", "JSONDecodeError")>>)

MatchesTried(matches) ==
    IF matches # <<>> THEN TryMatches(matches, 1, <<>>)
    ELSE NotFound(<<Attempt("Regex pattern search", "No JSON-like patterns found")>>)

BracePattern(resp) == MatchesTried(FindAllBraces(resp, 1))

DirectParse(resp) == Loaded(json_loads(Strip(resp)), "Direct parsing")

\* FirstFound with the generic fenced block tried before the labeled one
FirstFoundGenericFirst(resp, labeled, generic, pattern, direct) ==
    IF labeled.ok \/ generic.ok \/ pattern.ok \/ direct.ok
    THEN [ok |-> TRUE,
          val |-> IF generic.ok THEN generic.val
                  ELSE IF labeled.ok THEN labeled.val
                  ELSE IF pattern.ok THEN pattern.val
                  ELSE direct.val,
          attempts |-> <<>>,
          preview |-> [whole |-> 0, cut |-> 0]]
    ELSE [ok |-> FALSE, val |-> <<>>,
          attempts |-> generic.attempts \o labeled.attempts
                           \o pattern.attempts \o direct.attempts,
          preview |-> Preview(resp, PREVIEW_CHARS)]

\* the four strategies in their order: the first value found, or the
\* ValueError, whose message lists `attempts` and then `preview`
FirstFound(resp, labeled, generic, pattern, direct) ==
    IF labeled.ok \/ generic.ok \/ pattern.ok \/ direct.ok
    THEN [ok |-> TRUE,
          val |-> IF labeled.ok THEN labeled.val
                  ELSE IF generic.ok THEN generic.val
                  ELSE IF pattern.ok THEN pattern.val
                  ELSE direct.val,
          attempts |-> <<>>,
          preview |-> [whole |-> 0, cut |-> 0]]
    ELSE [ok |-> FALSE, val |-> <<>>,
          attempts |-> labeled.attempts \o generic.attempts
                           \o pattern.attempts \o direct.attempts,
          preview |-> Preview(resp, PREVIEW_CHARS)]

\* [ok, val, attempts, preview]: ok = FALSE stands for the ValueError
extract_json_from_response(resp) ==
    FirstFound(resp,
               FencedBlock(resp, <<FENCE, JSONLABEL>>, "Markdown JSON blocks"),
               FencedBlock(resp, <<FENCE>>, "Generic code blocks"),
               BracePattern(resp),
               DirectParse(resp))

\* ----------------------------------------------------- response validator

\* A schema document: the "type" it names ("" for none) and its "required"
\* keys. The empty document {} names neither.
EmptySchema == [type |-> "", required |-> {}]

TypeOf(val) ==
    IF IsObject(val) THEN "object"
    ELSE IF IsArray(val) THEN "array"
    ELSE IF val = <<NULL>> THEN "null"
    ELSE "string"

HasKey(val, key) == IsObject(val) /\ ObjectMembers(val, 2, NoMembers)[key] # <<>>
ValueAt(val, key) == ObjectMembers(val, 2, NoMembers)[key]

\* jsonschema.validate(instance, schema) raises no ValidationError
SchemaValid(val, schema) ==
    /\ schema.type # "" => TypeOf(val) = schema.type
    /\ IsObject(val) => \A k \in schema.required : HasKey(val, k)

\* the Python string a key token names, as a parsed value
KeyString(key) == IF key = KEY_A THEN <<STR_A>> ELSE <<"\"b\"">>

Passed == [passed |-> TRUE, cls |-> "", kind |-> "", key |-> ""]
Raised(cls, kind, key) == [passed |-> FALSE, cls |-> cls, kind |-> kind, key |-> key]

\* CheckItem with a value that is no object taken for one that has the item
CheckItemObjectsOnly(val, key, expected_value) ==
    IF IsObject(val) /\ ~HasKey(val, key) THEN Raised("AssertionError", "missing", key)
    ELSE IF IsObject(val) /\ ValueAt(val, key) # expected_value
         THEN Raised("AssertionError", "mismatch", key)
    ELSE Passed

\* `key not in response_json` and `response_json[key]` for one expected item:
\* the exception raised, or Passed
CheckItem(val, key, expected_value) ==
    IF IsObject(val) THEN
        IF ~HasKey(val, key) THEN Raised("AssertionError", "missing", key)
        ELSE IF ValueAt(val, key) # expected_value
             THEN Raised("AssertionError", "mismatch", key)
        ELSE Passed
    ELSE IF IsArray(val) THEN
        \* list membership, then a list indexed by a string
        LET elems == ArrayElements(val, 2)
        IN  IF \E i \in 1..Len(elems) : elems[i] = KeyString(key)
            THEN Raised("TypeError", "indices", "")
            ELSE Raised("AssertionError", "missing", key)
    ELSE IF val = <<NULL>> THEN
        \* None is not iterable
        Raised("TypeError", "not iterable", "")
    ELSE
        \* substring test, then a string indexed by a string
        IF val = KeyString(key) THEN Raised("TypeError", "indices", "")
        ELSE Raised("AssertionError", "missing", key)

\* the loop over expected_json.items(), from the i-th item on
RECURSIVE CheckExpected(_, _, _)
CheckExpected(val, expected_json, i) ==
    IF i > Len(expected_json) THEN Passed
    ELSE LET r == CheckItem(val, expected_json[i][1], expected_json[i][2])
         IN  IF r.passed THEN CheckExpected(val, expected_json, i + 1) ELSE r

\* validate_json_response with `elif expected_json:`: a schema, when there
\* is one, is all that is checked
ValidateSchemaOrExpected(response_json, expected_json, json_schema) ==
    IF json_schema # EmptySchema
    THEN IF SchemaValid(response_json, json_schema) THEN Passed
         ELSE Raised("AssertionError", "schema", "")
    ELSE IF expected_json # <<>> THEN CheckExpected(response_json, expected_json, 1)
    ELSE Passed

\* [passed, cls, kind, key]: the exception raised, or Passed
validate_json_response(response_json, expected_json, json_schema) ==
    IF json_schema # EmptySchema /\ ~SchemaValid(response_json, json_schema)
    THEN Raised("AssertionError", "schema", "")
    ELSE IF expected_json # <<>> THEN CheckExpected(response_json, expected_json, 1)
    ELSE Passed

\* ------------------------------------------------------------ data model

DEFAULT_TIMEOUT == 30
DEFAULT_WAIT_TIME == 3
DEFAULT_ITERATION_COUNT == 1
QUIT == "quit"
\* a prompt holding a lone surrogate, which str.encode() rejects
SURROGATE == "\\ud800"

\* WRPTestTurn
Turn(prompt, expected_json, json_schema) ==
    [prompt |-> prompt, expected_json |-> expected_json, json_schema |-> json_schema]

\* WRPTestCase
TestCase(turns, timeout) == [turns |-> turns, timeout |-> timeout]

ExpectA == <<<<KEY_A, <<STR_A>>>>>>
ObjectSchema == [type |-> "object", required |-> {}]

TestCases ==
    { TestCase(<<Turn("p1", ExpectA, EmptySchema)>>, DEFAULT_TIMEOUT),
      TestCase(<<Turn("p1", ExpectA, EmptySchema), Turn("p2", <<>>, ObjectSchema)>>, 1),
      TestCase(<<Turn(SURROGATE, <<>>, EmptySchema)>>, DEFAULT_TIMEOUT),
      TestCase(<<>>, DEFAULT_TIMEOUT) }

\* ----------------------------------------------------- the agent's output

ReplyLabeled == <<FENCE, JSONLABEL, NL, LBRACE, KEY_A, STR_A, RBRACE, NL, FENCE>>
ReplyObjectB == <<LBRACE, KEY_B, NULL, RBRACE>>
ReplyProse == <<PROSE, SP, PROSE>>
ReplyRawA == <<LBRACE, KEY_A, STR_A, RBRACE>>
\* an agent that answers nothing, and one whose answer starts with "Exiting"
ReplyEmpty == <<>>
ReplyExiting == <<EXITING, SP, PROSE>>
\* JSON values that are not objects
ReplyArray == <<LBRACK, STR_A, RBRACK>>
ReplyNull == <<NULL>>

RECURSIVE Session(_)
Session(replies) ==
    IF replies = <<>> THEN <<QUERY, SP, EXITING, DOTS, NL>>
    ELSE <<QUERY, SP, NL>> \o Head(replies) \o <<NL>> \o Session(Tail(replies))

\* what a child that exits may have written to its standard output
Transcripts ==
    { Session(<<>>),
      Session(<<ReplyLabeled>>),
      Session(<<ReplyProse>>),
      Session(<<ReplyLabeled, ReplyObjectB>>),
      Session(<<ReplyLabeled, ReplyProse>>),
      Session(<<ReplyLabeled, ReplyObjectB, ReplyLabeled>>),
      Session(<<ReplyRawA>>),
      Session(<<ReplyObjectB, ReplyObjectB>>),
      Session(<<ReplyEmpty>>),
      Session(<<ReplyExiting>>),
      Session(<<ReplyEmpty, ReplyLabeled>>),
      Session(<<ReplyArray>>),
      Session(<<ReplyNull>>) }

\* bytes that are not UTF-8
Undecodable == <<"\\xff">>

\* what a child may have written to its standard error
Diagnostics == {<<"Traceback">>, Undecodable}

ExitCodes == {0, 1, 2}

\* ------------------------------------------------------------ exceptions

Exception(cls, msg) == [cls |-> cls, msg |-> msg]

\* test_case.turns[0] of a test case without turns
NoTurns == Exception("IndexError", <<"list index out of range">>)

\* except Exception as e: raise RuntimeError(f"WRP execution failed: {e}")
ExecutionFailed(e) == Exception("RuntimeError", <<"WRP execution failed: ">> \o e.msg)

\* raise TimeoutError(f"WRP process timed out after {timeout} seconds")
TimedOut(timeout) ==
    Exception("TimeoutError",
              <<"WRP process timed out after ", ToString(timeout), " seconds">>)

\* raise RuntimeError(f"WRP failed with code {process.returncode}: {stderr.decode()}")
ExitedNonZero(code, err) ==
    Exception("RuntimeError", <<"WRP failed with code ", ToString(code), ": ">> \o err)

\* stdout.decode() or stderr.decode() of bytes that are not UTF-8
DecodeFailed == Exception("UnicodeDecodeError", <<"invalid start byte">>)

\* str(e) of what validate_json_response raises
ValidationMessage(v) ==
    CASE v.kind = "schema" -> <<"JSON schema validation failed: ">>
      [] v.kind = "missing" -> <<"Missing expected key '", v.key, "' in response">>
      [] v.kind = "mismatch" -> <<"Expected ", v.key, "=">>
      [] v.kind = "indices" -> <<"indices must be integers">>
      [] v.kind = "not iterable" -> <<"argument of type 'NoneType' is not iterable">>

\* str(e) of the ValueError of extract_json_from_response
ExtractionMessage(x) ==
    <<"No valid JSON found in response. Attempted extractions:">>
        \o [i \in 1..Len(x.attempts) |-> x.attempts[i].strategy]
        \o <<"Response content (first 500 chars): ">>

\* ------------------------------------------------------- one trial's work

\* the prompt script of _run_single_test_iteration (turns is not empty)
RECURSIVE PromptLines(_)
PromptLines(turns) ==
    IF turns = <<>> THEN <<>>
    ELSE <<Head(turns).prompt, NL>> \o PromptLines(Tail(turns))

\* BuildInput with the single-turn script for every test case
BuildInputFirstTurn(turns) == <<turns[1].prompt, NL, QUIT, NL>>

BuildInput(turns) ==
    IF Len(turns) > 1 THEN PromptLines(turns) \o <<QUIT, NL>>
    ELSE <<turns[1].prompt, NL, QUIT, NL>>

\* input_text.encode() succeeds
Encodable(text) == \A i \in 1..Len(text) : text[i] # SURROGATE

\* an iteration result; json_none: response_json is None, error <<>>: None
IterationResult(passed, resp, response_json, json_none, error) ==
    [passed |-> passed, response |-> resp, response_json |-> response_json,
     json_none |-> json_none, error |-> error]

\* FailedIteration for an exception that carries a `response` attribute
FailedIterationKeeping(e) == IterationResult(FALSE, e.msg, <<>>, TRUE, e.msg)

FailedIteration(e) == IterationResult(FALSE, <<>>, <<>>, TRUE, e.msg)

TurnFailed(i, msg) ==
    Exception("RuntimeError", <<"Turn ", ToString(i), " failed: ">> \o msg)

\* the i-th pair of zip(responses, turns), x extracted from the response and,
\* when x is a value, v the validator's verdict on it: [ok, val, exc, validated]
TurnOutcome(i, x, v) ==
    IF ~x.ok
    THEN [ok |-> FALSE, val |-> <<>>, exc |-> TurnFailed(i, ExtractionMessage(x)),
          validated |-> FALSE]
    ELSE IF ~v.passed
    THEN [ok |-> FALSE, val |-> <<>>, exc |-> TurnFailed(i, ValidationMessage(v)),
          validated |-> TRUE]
    ELSE [ok |-> TRUE, val |-> x.val, exc |-> Exception("", <<>>), validated |-> TRUE]

\* ValidatedIfFound without the validator: what is extracted passes
ValidatedAsFound(x, turn) == Passed

ValidatedIfFound(x, turn) ==
    IF x.ok THEN validate_json_response(x.val, turn.expected_json, turn.json_schema)
    ELSE Passed

ExtractAndValidate(i, x, turn) == TurnOutcome(i, x, ValidatedIfFound(x, turn))

\* the loop over zip(responses, turns), from the i-th pair on, t the outcome
\* of the i-th pair: [ok, values, exc, extracted, validated]
RECURSIVE ValidateTurns(_, _, _, _)
\* NextTurn going through the turns that are left after a failed one
NextTurnKeepGoing(resps, turns, i, all_response_json, t) ==
    IF ~t.ok
    THEN [ok |-> FALSE, values |-> <<>>, exc |-> t.exc, extracted |-> Len(turns),
          validated |-> Len(turns)]
    ELSE ValidateTurns(resps, turns, i + 1, Append(all_response_json, t.val))

NextTurn(resps, turns, i, all_response_json, t) ==
    IF ~t.ok
    THEN [ok |-> FALSE, values |-> <<>>, exc |-> t.exc, extracted |-> i,
          validated |-> IF t.validated THEN i ELSE i - 1]
    ELSE ValidateTurns(resps, turns, i + 1, Append(all_response_json, t.val))

ValidateTurns(resps, turns, i, all_response_json) ==
    IF i > Min(Len(resps), Len(turns))
    THEN [ok |-> TRUE, values |-> all_response_json, exc |-> Exception("", <<>>),
          extracted |-> i - 1, validated |-> i - 1]
    ELSE NextTurn(resps, turns, i, all_response_json,
                  ExtractAndValidate(i, extract_json_from_response(resps[i]),
                                     turns[i]))

\* raise RuntimeError(f"Expected {len(test_case.turns)} responses, got {len(responses)}")
CountMismatch(expected, got) ==
    Exception("RuntimeError",
              <<"Expected ", ToString(expected), " responses, got ", ToString(got)>>)

\* what the iteration returns once the turns are through, t their outcome
TrialResult(resps, t) ==
    [result |-> IF t.ok THEN IterationResult(TRUE, resps, t.values, FALSE, <<>>)
                ELSE FailedIteration(t.exc),
     extracted |-> t.extracted, validated |-> t.validated]

\* CheckedResponses without the count check: zip() pairs what there is
CheckedResponsesZipped(tc, resps) ==
    TrialResult(resps, ValidateTurns(resps, tc.turns, 1, <<>>))

\* the count check, then the turns
CheckedResponses(tc, resps) ==
    IF Len(resps) # Len(tc.turns)
    THEN [result |-> FailedIteration(CountMismatch(Len(tc.turns), Len(resps))),
          extracted |-> 0, validated |-> 0]
    ELSE TrialResult(resps, ValidateTurns(resps, tc.turns, 1, <<>>))

\* _run_single_test_iteration once _execute_wrp_subprocess has returned
\* full_output: [result, extracted, validated]
EvaluateOutput(tc, text) == CheckedResponses(tc, extract_response_content(text))

\* ------------------------------------------------------ robustness runner

\* FirstPassed taking the last iteration that passed
LastPassed(its) ==
    LET ok == {i \in 1..Len(its) : its[i].passed}
    IN  IF ok = {} THEN 0 ELSE CHOOSE i \in ok : \A j \in ok : i >= j

\* the first index of an iteration that passed, 0 for None
FirstPassed(its) ==
    LET ok == {i \in 1..Len(its) : its[i].passed}
    IN  IF ok = {} THEN 0 ELSE CHOOSE i \in ok : \A j \in ok : i <= j

\* CaseResult with best-of-N: one passing iteration is enough
CaseResultAnyPass(its, successful, total) ==
    LET all_passed == successful >= 1
        first == FirstPassed(its)
    IN  [passed |-> all_passed,
         response |-> IF first # 0 THEN its[first].response ELSE its[Len(its)].response,
         response_json |-> IF first # 0 THEN its[first].response_json ELSE <<>>,
         json_none |-> first = 0,
         error |-> IF all_passed THEN <<>>
                   ELSE <<"Only ", ToString(successful), "/", ToString(total),
                          " iterations passed">>,
         iterations |-> its,
         successful_runs |-> successful,
         total_runs |-> total]

\* the dictionary run_test returns (iterations is not empty)
CaseResult(its, successful, total) ==
    LET all_passed == successful = total
        first == FirstPassed(its)
    IN  [passed |-> all_passed,
         response |-> IF first # 0 THEN its[first].response ELSE its[Len(its)].response,
         response_json |-> IF first # 0 THEN its[first].response_json ELSE <<>>,
         json_none |-> first = 0,
         error |-> IF all_passed THEN <<>>
                   ELSE <<"Only ", ToString(successful), "/", ToString(total),
                          " iterations passed">>,
         iterations |-> its,
         successful_runs |-> successful,
         total_runs |-> total]

NoResult == [passed |-> FALSE, response |-> <<>>, response_json |-> <<>>,
             json_none |-> TRUE, error |-> <<>>, iterations |-> <<>>,
             successful_runs |-> 0, total_runs |-> 0]

\* ----------------------------------------------------------------- state

MaxIterations == 3

VARIABLES
    test_case,        \* the WRPTestCase handed to run_test
    iteration_count,  \* WRPTestRunner.iteration_count
    wait_time,        \* WRPTestRunner.wait_time
    pc,               \* where run_test stands
    iteration,        \* the trials finished so far (the loop index)
    iterations,       \* run_test's list of iteration results
    successful_runs,  \* run_test's counter
    child,            \* the child of the current trial: none, running, gone (it has
                      \* exited, the event loop has seen it, the transport still
                      \* holds it), unseen (it has exited, the event loop has not
                      \* seen it), exited, killed
    stdin_text,       \* the script handed to the current child
    outcome,          \* how _execute_wrp_subprocess ended in the current trial
    work,             \* the turns extracted and validated in the last trial
    spawns,           \* calls of create_subprocess_exec so far
    sleeps,           \* calls of asyncio.sleep so far
    case_result,      \* what run_test returned
    full_output,      \* segmenter harness: the transcript
    responses,        \* segmenter harness: extract_response_content's result
    response,         \* extractor harness: the response
    extraction,       \* extractor harness: extract_json_from_response's result
    validation,       \* validator harness: the arguments
    verdict,          \* validator harness: validate_json_response's result
    argv,             \* command line: the arguments of the process
    test_file,        \* command line: the YAML file of test definitions
    tests,            \* command line: WRPTestRunner.tests
    main_pc,          \* command line: where main stands
    position,         \* command line: the test cases main has run
    printed,          \* command line: the verdicts main has printed
    exit_code         \* command line: the exit code of the process

runner_vars == <<test_case, iteration_count, wait_time, pc, iteration, iterations,
                 successful_runs, child, stdin_text, outcome, work, spawns, sleeps,
                 case_result>>
segmenter_vars == <<full_output, responses>>
extractor_vars == <<response, extraction>>
validator_vars == <<validation, verdict>>
main_vars == <<argv, test_file, tests, main_pc, position, printed, exit_code>>
vars == <<runner_vars, segmenter_vars, extractor_vars, validator_vars, main_vars>>

\* returncode and stderr: what communicate() returned, NO_CODE when it did not
NO_CODE == -1
NoOutcome == [state |-> "none", exc |-> Exception("", <<>>), stdout |-> <<>>,
              deadline |-> FALSE, returncode |-> NO_CODE, stderr |-> <<>>]
Returned(text) == [state |-> "returned", exc |-> Exception("", <<>>), stdout |-> text,
                   deadline |-> FALSE, returncode |-> 0, stderr |-> <<>>]
Raises(e, deadline) == [state |-> "raised", exc |-> e, stdout |-> <<>>,
                        deadline |-> deadline, returncode |-> NO_CODE, stderr |-> <<>>]
\* the lines after communicate() has returned: the check of the return code
\* and the decoding; stderr is read for a return code that is not 0 only
NonZeroExit(code, err) ==
    [(IF err = Undecodable THEN Raises(ExecutionFailed(DecodeFailed), FALSE)
      ELSE Raises(ExecutionFailed(ExitedNonZero(code, err)), FALSE))
     EXCEPT !.returncode = code, !.stderr = err]

Communicated(code, out, err) ==
    IF code # 0 THEN NonZeroExit(code, err)
    ELSE IF out = Undecodable
         THEN [Raises(ExecutionFailed(DecodeFailed), FALSE) EXCEPT !.returncode = 0]
    ELSE Returned(Strip(out))
NoWork == [extracted |-> 0, validated |-> 0]

\* the runner as WRPTestRunner.__init__ leaves it, nothing run
RunnerIdle ==
    /\ test_case = TestCase(<<>>, DEFAULT_TIMEOUT)
    /\ iteration_count = DEFAULT_ITERATION_COUNT
    /\ wait_time = DEFAULT_WAIT_TIME
    /\ pc = "idle"
    /\ iteration = 0
    /\ iterations = <<>>
    /\ successful_runs = 0
    /\ child = "none"
    /\ stdin_text = <<>>
    /\ outcome = NoOutcome
    /\ work = NoWork
    /\ spawns = 0
    /\ sleeps = 0
    /\ case_result = NoResult

SegmenterIdle == full_output = <<>> /\ responses = [state |-> "none", list |-> <<>>]
ExtractorIdle == response = <<>> /\ extraction = [state |-> "none"]
ValidatorIdle == validation = [state |-> "none"] /\ verdict = [state |-> "none"]
NoFile == [exists |-> FALSE, parses |-> FALSE, tests |-> <<>>]
MainIdle ==
    /\ argv = <<>>
    /\ test_file = NoFile
    /\ tests = <<>>
    /\ main_pc = "idle"
    /\ position = 0
    /\ printed = <<>>
    /\ exit_code = -1

\* a runner, and a test case it is about to run
Init ==
    /\ test_case \in TestCases
    /\ iteration_count \in 0..MaxIterations
    /\ wait_time \in {0, DEFAULT_WAIT_TIME}
    /\ pc = "pending"
    /\ iteration = 0
    /\ iterations = <<>>
    /\ successful_runs = 0
    /\ child = "none"
    /\ stdin_text = <<>>
    /\ outcome = NoOutcome
    /\ work = NoWork
    /\ spawns = 0
    /\ sleeps = 0
    /\ case_result = NoResult
    /\ SegmenterIdle /\ ExtractorIdle /\ ValidatorIdle /\ MainIdle

\* ------------------------------------------------------ run_test's steps

harness_vars == <<segmenter_vars, extractor_vars, validator_vars, main_vars>>

\* Record with a failed trial run again: its result takes the place of the
\* failed one
RecordReplacingFailed(result) ==
    /\ iterations' = IF iterations # <<>> /\ ~iterations[Len(iterations)].passed
                     THEN [iterations EXCEPT ![Len(iterations)] = result]
                     ELSE Append(iterations, result)
    /\ successful_runs' = IF result.passed THEN successful_runs + 1 ELSE successful_runs
    /\ iteration' = Len(iterations')
    /\ pc' = IF wait_time > 0 THEN "sleep" ELSE "loop"

\* Record with a failed trial ending the loop
RecordAbortOnFailure(result) ==
    /\ iterations' = Append(iterations, result)
    /\ successful_runs' = IF result.passed THEN successful_runs + 1 ELSE successful_runs
    /\ iteration' = IF result.passed THEN iteration + 1 ELSE iteration_count
    /\ pc' = IF wait_time > 0 THEN "sleep" ELSE "loop"

\* iterations.append(result), the counter, and on to the delay or the loop
Record(result) ==
    /\ iterations' = Append(iterations, result)
    /\ successful_runs' = IF result.passed THEN successful_runs + 1 ELSE successful_runs
    /\ iteration' = iteration + 1
    /\ pc' = IF wait_time > 0 THEN "sleep" ELSE "loop"

RecordTrial(e) ==
    /\ Record(e.result)
    /\ work' = [extracted |-> e.extracted, validated |-> e.validated]

\* run_test is called: iterations = [], successful_runs = 0, and the loop
\* over range(self.iteration_count) starts
StartRun ==
    /\ pc = "pending"
    /\ iterations' = <<>>
    /\ successful_runs' = 0
    /\ iteration' = 0
    /\ pc' = "loop"
    /\ UNCHANGED <<test_case, iteration_count, wait_time, child, stdin_text, outcome,
                   work, spawns, sleeps, case_result, harness_vars>>

\* the next trial starts: the prompt script is built; with no turn,
\* test_case.turns[0] raises IndexError and the trial has failed
BeginIteration ==
    /\ pc = "loop"
    /\ iteration < iteration_count
    /\ outcome' = NoOutcome
    /\ work' = NoWork
    /\ IF test_case.turns = <<>>
       THEN /\ Record(FailedIteration(NoTurns))
            /\ UNCHANGED <<stdin_text, child>>
       ELSE /\ stdin_text' = BuildInput(test_case.turns)
            /\ child' = "none"
            /\ pc' = "spawn"
            /\ UNCHANGED <<iterations, successful_runs, iteration>>
    /\ UNCHANGED <<test_case, iteration_count, wait_time, spawns, sleeps, case_result,
                   harness_vars>>

\* asyncio.create_subprocess_exec returns a process
Spawn ==
    /\ pc = "spawn"
    /\ child' = "running"
    /\ spawns' = spawns + 1
    /\ pc' = "communicate"
    /\ UNCHANGED <<test_case, iteration_count, wait_time, iteration, iterations,
                   successful_runs, stdin_text, outcome, work, sleeps, case_result,
                   harness_vars>>

\* asyncio.create_subprocess_exec raises (no such interpreter, no more processes)
SpawnFails ==
    /\ pc = "spawn"
    /\ spawns' = spawns + 1
    /\ outcome' = Raises(ExecutionFailed(Exception("OSError", <<"spawn failed">>)), FALSE)
    /\ pc' = "executed"
    /\ UNCHANGED <<test_case, iteration_count, wait_time, iteration, iterations,
                   successful_runs, child, stdin_text, work, sleeps, case_result,
                   harness_vars>>

\* input_text.encode() raises before communicate() is called: no handler
\* between the spawn and the outer `except Exception` touches the child
EncodeFails ==
    /\ pc = "communicate"
    /\ ~Encodable(stdin_text)
    /\ outcome' = Raises(ExecutionFailed(Exception("UnicodeEncodeError",
                                                   <<"surrogates not allowed">>)), FALSE)
    /\ pc' = "executed"
    /\ UNCHANGED <<test_case, iteration_count, wait_time, iteration, iterations,
                   successful_runs, child, stdin_text, work, spawns, sleeps,
                   case_result, harness_vars>>

\* the child exits before the deadline: communicate() returns its output
ChildExits(code, out, err) ==
    /\ pc = "communicate"
    /\ Encodable(stdin_text)
    /\ child' = "exited"
    /\ outcome' = Communicated(code, out, err)
    /\ pc' = "executed"
    /\ UNCHANGED <<test_case, iteration_count, wait_time, iteration, iterations,
                   successful_runs, stdin_text, work, spawns, sleeps, case_result,
                   harness_vars>>

\* the child exits by itself before the deadline, the event loop sees the
\* exit, and communicate() stays pending: the child's output is not at its
\* end while another process holds the pipes open
ChildGone ==
    /\ pc = "communicate"
    /\ Encodable(stdin_text)
    /\ child = "running"
    /\ child' = "gone"
    /\ UNCHANGED <<test_case, iteration_count, wait_time, pc, iteration, iterations,
                   successful_runs, stdin_text, outcome, work, spawns, sleeps,
                   case_result, harness_vars>>

\* the child exits by itself between the TimeoutError and process.kill():
\* no await lies between the two, the event loop has not seen the exit
ChildExitsUnseen ==
    /\ pc = "kill"
    /\ child = "running"
    /\ child' = "unseen"
    /\ UNCHANGED <<test_case, iteration_count, wait_time, pc, iteration, iterations,
                   successful_runs, stdin_text, outcome, work, spawns, sleeps,
                   case_result, harness_vars>>

\* the child exits and the transport lets go of it in the pass of the event
\* loop in which the deadline expires: wait_for raises TimeoutError all the same
DeadlineExpiresAtExit ==
    /\ pc = "communicate"
    /\ Encodable(stdin_text)
    /\ child' = "exited"
    /\ pc' = "kill"
    /\ UNCHANGED <<test_case, iteration_count, wait_time, iteration, iterations,
                   successful_runs, stdin_text, outcome, work, spawns, sleeps,
                   case_result, harness_vars>>

\* asyncio.wait_for raises TimeoutError: communicate() has not finished
DeadlineExpires ==
    /\ pc = "communicate"
    /\ Encodable(stdin_text)
    /\ pc' = "kill"
    /\ UNCHANGED <<test_case, iteration_count, wait_time, iteration, iterations,
                   successful_runs, child, stdin_text, outcome, work, spawns, sleeps,
                   case_result, harness_vars>>

\* process.kill() ends the running child, and `await process.wait()` hands
\* the control back to the event loop
Kill ==
    /\ pc = "kill"
    /\ child = "running"
    /\ child' = "killed"
    /\ pc' = "wait"
    /\ UNCHANGED <<test_case, iteration_count, wait_time, iteration, iterations,
                   successful_runs, stdin_text, outcome, work, spawns, sleeps,
                   case_result, harness_vars>>

\* the child has exited and the event loop has not seen it: process.kill()
\* finds it dead and sends nothing, and `await process.wait()` hands the
\* control back to the event loop, which has the exit still to see
KillUnseen ==
    /\ pc = "kill"
    /\ child = "unseen"
    /\ pc' = "wait"
    /\ UNCHANGED <<test_case, iteration_count, wait_time, iteration, iterations,
                   successful_runs, child, stdin_text, outcome, work, spawns, sleeps,
                   case_result, harness_vars>>

\* the waiter of process.wait() is woken, once the event loop has seen the
\* child dead and every pipe of it is disconnected, and the transport has let
\* go of the child: raise TimeoutError(...), which the outer
\* `except Exception` turns into the RuntimeError
WaitReturns ==
    /\ pc = "wait"
    /\ child' = IF child = "unseen" THEN "exited" ELSE child
    /\ outcome' = Raises(ExecutionFailed(TimedOut(test_case.timeout)), TRUE)
    /\ pc' = "executed"
    /\ UNCHANGED <<test_case, iteration_count, wait_time, iteration, iterations,
                   successful_runs, stdin_text, work, spawns, sleeps,
                   case_result, harness_vars>>

\* the child has exited by itself before the deadline, the event loop has
\* seen the exit and the transport still holds the child: process.kill()
\* sends nothing, process.wait() returns at once without a pass of the event
\* loop, and the TimeoutError is raised as for a child that was killed
KillAfterExit ==
    /\ pc = "kill"
    /\ child = "gone"
    /\ outcome' = Raises(ExecutionFailed(TimedOut(test_case.timeout)), TRUE)
    /\ pc' = "executed"
    /\ UNCHANGED <<test_case, iteration_count, wait_time, iteration, iterations,
                   successful_runs, child, stdin_text, work, spawns, sleeps,
                   case_result, harness_vars>>

\* the child has exited by itself and the transport has let go of it:
\* process.kill() raises ProcessLookupError
KillRace ==
    /\ pc = "kill"
    /\ child = "exited"
    /\ outcome' = Raises(ExecutionFailed(Exception("ProcessLookupError", <<>>)), TRUE)
    /\ pc' = "executed"
    /\ UNCHANGED <<test_case, iteration_count, wait_time, iteration, iterations,
                   successful_runs, child, stdin_text, work, spawns, sleeps,
                   case_result, harness_vars>>

\* EvaluateOutput over the test cases and the outputs of the model, computed once
Evaluated ==
    [tc \in TestCases |->
        [text \in {Strip(out) : out \in Transcripts} |-> EvaluateOutput(tc, text)]]

\* _execute_wrp_subprocess has returned or raised: the rest of
\* _run_single_test_iteration, and run_test records its result
Evaluate ==
    /\ pc = "executed"
    /\ RecordTrial(IF outcome.state = "raised"
                   THEN [result |-> FailedIteration(outcome.exc),
                         extracted |-> 0, validated |-> 0]
                   ELSE Evaluated[test_case][outcome.stdout])
    /\ UNCHANGED <<test_case, iteration_count, wait_time, child, stdin_text, outcome,
                   spawns, sleeps, case_result, harness_vars>>

\* await asyncio.sleep(self.wait_time), at the end of the loop body
Sleep ==
    /\ pc = "sleep"
    /\ sleeps' = sleeps + 1
    /\ pc' = "loop"
    /\ UNCHANGED <<test_case, iteration_count, wait_time, iteration, iterations,
                   successful_runs, child, stdin_text, outcome, work, spawns,
                   case_result, harness_vars>>

\* Finish returning a passing case result when no iteration was recorded
FinishVacuously ==
    /\ pc = "loop"
    /\ iteration = iteration_count
    /\ pc' = "done"
    /\ case_result' = IF iterations = <<>> THEN [NoResult EXCEPT !.passed = TRUE]
                       ELSE CaseResult(iterations, successful_runs, iteration_count)
    /\ UNCHANGED <<test_case, iteration_count, wait_time, iteration, iterations,
                   successful_runs, child, stdin_text, outcome, work, spawns, sleeps,
                   harness_vars>>

\* the loop is over: run_test returns the case result; with no iteration
\* recorded, iterations[-1] raises IndexError
Finish ==
    /\ pc = "loop"
    /\ iteration = iteration_count
    /\ IF iterations = <<>>
       THEN pc' = "raised" /\ UNCHANGED case_result
       ELSE /\ pc' = "done"
            /\ case_result' = CaseResult(iterations, successful_runs, iteration_count)
    /\ UNCHANGED <<test_case, iteration_count, wait_time, iteration, iterations,
                   successful_runs, child, stdin_text, outcome, work, spawns, sleeps,
                   harness_vars>>

Next ==
    \/ StartRun
    \/ BeginIteration
    \/ Spawn
    \/ SpawnFails
    \/ EncodeFails
    \/ \E code \in ExitCodes, out \in Transcripts \cup {Undecodable}, err \in Diagnostics :
           ChildExits(code, out, err)
    \/ ChildGone
    \/ ChildExitsUnseen
    \/ DeadlineExpires
    \/ DeadlineExpiresAtExit
    \/ Kill
    \/ KillUnseen
    \/ WaitReturns
    \/ KillAfterExit
    \/ KillRace
    \/ Evaluate
    \/ Sleep
    \/ Finish

Spec == Init /\ [][Next]_vars

\* the steps run_test takes by itself. The others are the environment's: the
\* exit of the child (ChildExits, ChildGone, ChildExitsUnseen,
\* DeadlineExpiresAtExit) and the disconnection of its pipes, which wakes the
\* waiter of process.wait() (WaitReturns) and is up to whoever holds them.
RunnerStep ==
    \/ StartRun
    \/ BeginIteration
    \/ Spawn
    \/ SpawnFails
    \/ EncodeFails
    \/ DeadlineExpires
    \/ Kill
    \/ KillUnseen
    \/ KillAfterExit
    \/ KillRace
    \/ Evaluate
    \/ Sleep
    \/ Finish

\* the event loop goes on with run_test whenever it can: a timer that is due
\* fires, a sleep ends, a kill is sent and ends the child. Nothing is assumed
\* of the child, which may never exit by itself, nor of the processes it has
\* started, which may hold its pipes.
SpecLive == Init /\ [][Next]_vars /\ WF_vars(RunnerStep)

\* ---------------------------------------------------- segmenter on its own

MaxLines == 4

\* the lines a transcript is made of
Lines ==
    { <<QUERY>>, <<QUERY, SP>>, <<PROSE>>, <<SP, PROSE, PROSE, SP>>, <<>>,
      <<EXITING, DOTS>>, <<EXITING, SP, PROSE>>, <<SESSION, SP, PROSE>>,
      <<QUERY, SP, PROSE>>, <<PROSE, SP, QUERY>> }

\* "\n".join(lines)
RECURSIVE JoinLines(_)
JoinLines(lines) ==
    IF lines = <<>> THEN <<>>
    ELSE IF Len(lines) = 1 THEN lines[1]
    ELSE lines[1] \o <<NL>> \o JoinLines(Tail(lines))

SeqsUpTo(S, n) == UNION {[1..k -> S] : k \in 0..n}

InitSegmenter ==
    /\ RunnerIdle /\ ExtractorIdle /\ ValidatorIdle /\ MainIdle
    /\ full_output \in {JoinLines(ls) : ls \in SeqsUpTo(Lines, MaxLines)}
    /\ responses = [state |-> "none", list |-> <<>>]

\* responses = extract_response_content(full_output)
Segment ==
    /\ responses.state = "none"
    /\ responses' = [state |-> "done", list |-> extract_response_content(full_output)]
    /\ UNCHANGED <<runner_vars, full_output, extractor_vars, validator_vars, main_vars>>

SpecSegmenter == InitSegmenter /\ [][Segment]_vars

\* ---------------------------------------------------- extractor on its own

MaxPieces == 3

\* the pieces a response is made of
Pieces ==
    { <<PROSE>>, <<NL>>, <<FENCE>>, <<FENCE, JSONLABEL>>, <<NULL>>, <<LBRACE>>,
      <<LBRACE, KEY_A, STR_A, RBRACE>>,
      <<LBRACK, NULL, RBRACK>>,
      <<LBRACE, PROSE, RBRACE>>,
      <<LBRACK, LBRACE, KEY_A, NULL, RBRACE, RBRACK>>,
      <<FENCE, JSONLABEL, NL, LBRACK, STR_A, RBRACK, NL, FENCE>>,
      <<FENCE, JSONLABEL, PROSE, FENCE>>,
      <<FENCE, NL, LBRACK, NULL, RBRACK, NL, FENCE>> }

RECURSIVE Concat(_)
Concat(pieces) == IF pieces = <<>> THEN <<>> ELSE Head(pieces) \o Concat(Tail(pieces))

\* prose of n characters
LongProse(n) == [i \in 1..n |-> PROSE]

\* responses around the length of the preview
LongResponses ==
    { p \o LongProse(n) : p \in Pieces, n \in {PREVIEW_CHARS - 4, PREVIEW_CHARS} }

InitExtractor ==
    /\ RunnerIdle /\ SegmenterIdle /\ ValidatorIdle /\ MainIdle
    /\ response \in {Concat(ps) : ps \in SeqsUpTo(Pieces, MaxPieces)} \cup LongResponses
    /\ extraction = [state |-> "none"]

\* extraction = extract_json_from_response(response)
Extract ==
    /\ extraction.state = "none"
    /\ extraction' = [state |-> "done", result |-> extract_json_from_response(response)]
    /\ UNCHANGED <<runner_vars, segmenter_vars, response, validator_vars, main_vars>>

SpecExtractor == InitExtractor /\ [][Extract]_vars

\* ---------------------------------------------------- validator on its own

MaxDepth == 1

ArrayOf(elems) ==
    <<LBRACK>> \o (IF elems = <<>> THEN <<>> ELSE elems[1])
        \o (IF Len(elems) > 1 THEN <<COMMA>> \o elems[2] ELSE <<>>) \o <<RBRACK>>

\* the parsed values nested at most d deep
RECURSIVE Values(_)
Values(d) ==
    IF d = 0 THEN {<<v>> : v \in Scalars}
    ELSE LET inner == Values(d - 1)
             members == [Keys -> inner \cup {<<>>}]
         IN  {<<v>> : v \in Scalars}
                 \cup {ArrayOf(es) : es \in SeqsUpTo(inner, 1)}
                 \cup {ArrayOf(<<e, f>>) : e, f \in {<<v>> : v \in Scalars}}
                 \cup {ObjectText(m) : m \in members}

ExpectedValues == {<<v>> : v \in Scalars} \cup {<<LBRACE, KEY_A, NULL, RBRACE>>}

\* the expected-value mappings, in the order of their items
ExpectedMappings ==
    {<<>>}
        \cup {<<<<k, v>>>> : k \in Keys, v \in ExpectedValues}
        \cup {<<<<k, v>>, <<l, w>>>> : k \in Keys, l \in Keys, v \in ExpectedValues, w \in ExpectedValues}

Schemas ==
    { EmptySchema, ObjectSchema,
      [type |-> "array", required |-> {}],
      [type |-> "null", required |-> {}],
      [type |-> "", required |-> {KEY_A}],
      [type |-> "object", required |-> {KEY_A, KEY_B}] }

InitValidator ==
    /\ RunnerIdle /\ SegmenterIdle /\ ExtractorIdle /\ MainIdle
    /\ validation \in
           { [state |-> "args", response_json |-> v, expected_json |-> e, json_schema |-> sc] :
                 v \in Values(MaxDepth),
                 e \in {m \in ExpectedMappings : Len(m) < 2 \/ m[1][1] # m[2][1]},
                 sc \in Schemas }
    /\ verdict = [state |-> "none"]

\* verdict = validate_json_response(response_json, expected_json, json_schema)
Validate ==
    /\ verdict.state = "none"
    /\ verdict' = [state |-> "done",
                   result |-> validate_json_response(validation.response_json,
                                                     validation.expected_json,
                                                     validation.json_schema)]
    /\ UNCHANGED <<runner_vars, segmenter_vars, extractor_vars, validation,
                   main_vars>>

SpecValidator == InitValidator /\ [][Validate]_vars

\* ------------------------------------------------------ the command line

MaxTests == 2

RequiredKeys == {"name", "description", "mcps"}

\* one entry of a 'turns' list of the YAML file, and one entry of 'tests':
\* `keys` are the keys the mapping has
TurnData(keys, prompt, expected_json, json_schema) ==
    [keys |-> keys, prompt |-> prompt, expected_json |-> expected_json,
     json_schema |-> json_schema]

TestData(keys, turns, timeout) == [keys |-> keys, turns |-> turns, timeout |-> timeout]

TurnP1 == TurnData({"prompt", "expected_json"}, "p1", ExpectA, EmptySchema)
TurnP2 == TurnData({"prompt", "json_schema"}, "p2", <<>>, ObjectSchema)
\* a prompt that YAML reads and str.encode() refuses
TurnSurrogate == TurnData({"prompt"}, SURROGATE, <<>>, EmptySchema)

TestDefinitions ==
    { TestData(RequiredKeys \cup {"turns"}, <<TurnP1>>, 0),
      TestData(RequiredKeys \cup {"turns", "timeout"}, <<TurnP1, TurnP2>>, 1),
      TestData(RequiredKeys \cup {"turns"}, <<TurnSurrogate>>, 0),
      TestData(RequiredKeys \cup {"turns"}, <<>>, 0),
      TestData(RequiredKeys, <<>>, 0),
      TestData({"description", "mcps", "turns"}, <<TurnP1>>, 0) }

\* WRPTestTurn(turn_data['prompt'], turn_data.get('expected_json', {}),
\*             turn_data.get('json_schema', {}))
WRPTestTurn(turn_data) ==
    Turn(turn_data.prompt,
         IF "expected_json" \in turn_data.keys THEN turn_data.expected_json ELSE <<>>,
         IF "json_schema" \in turn_data.keys THEN turn_data.json_schema ELSE EmptySchema)

\* WRPTestCase.__init__ raises KeyError: test_data['name'], ['description'],
\* ['mcps'] or a turn_data['prompt'] is missing
RaisesKeyError(test_data) ==
    \/ ~(RequiredKeys \subseteq test_data.keys)
    \/ /\ "turns" \in test_data.keys
       /\ \E i \in 1..Len(test_data.turns) : "prompt" \notin test_data.turns[i].keys

\* WRPTestCase(test_data): test_data.get('timeout', 30), test_data.get('turns', [])
WRPTestCase(test_data) ==
    TestCase(IF "turns" \in test_data.keys
             THEN [i \in 1..Len(test_data.turns) |-> WRPTestTurn(test_data.turns[i])]
             ELSE <<>>,
             IF "timeout" \in test_data.keys THEN test_data.timeout ELSE DEFAULT_TIMEOUT)

\* print(f"Passed: {result['passed']} ({result['successful_runs']}/{result['total_runs']} ...")
\* the fields of the line 'Passed:', its elapsed time left out
PrintedVerdict(result) ==
    [passed |-> result.passed, successful_runs |-> result.successful_runs,
     total_runs |-> result.total_runs]

AVAILABLE_PROVIDERS == {"gemini", "ollama", "openai", "claude", "opencode", "claudecode"}

\* the argument lists of the command line
Arguments ==
    { <<"--provider", "gemini">>, <<"--provider", "claude", "--debug">>, <<>>,
      <<"--provider", "nobody">>, <<"--provider", "CLAUDE">>, <<"-h">> }

\* parser.parse_args() from the i-th argument on: the code argparse exits
\* with (0 after the help, 2 after an error), NO_CODE when it returns
RECURSIVE ParseFrom(_, _, _)
ParseFrom(args, i, provider_seen) ==
    IF i > Len(args) THEN (IF provider_seen THEN NO_CODE ELSE 2)
    ELSE IF args[i] \in {"-h", "--help"} THEN 0
    ELSE IF args[i] = "--debug" THEN ParseFrom(args, i + 1, provider_seen)
    ELSE IF args[i] = "--provider" /\ i < Len(args) /\ args[i + 1] \in AVAILABLE_PROVIDERS
         THEN ParseFrom(args, i + 2, TRUE)
    ELSE 2

parse_args(args) == ParseFrom(args, 1, FALSE)

\* the process is started: any arguments, any file of test definitions, or none
InitMain ==
    /\ RunnerIdle /\ SegmenterIdle /\ ExtractorIdle /\ ValidatorIdle
    /\ argv \in Arguments
    /\ test_file \in
           {NoFile, [exists |-> TRUE, parses |-> FALSE, tests |-> <<>>]}
               \cup {[exists |-> TRUE, parses |-> TRUE, tests |-> ts] :
                        ts \in SeqsUpTo(TestDefinitions, MaxTests)}
    /\ tests = <<>>
    /\ main_pc = "start"
    /\ position = 0
    /\ printed = <<>>
    /\ exit_code = -1

\* args = parse_args(): argparse ends the process by itself after the help
\* and after an error
ParseArgs ==
    /\ main_pc = "start"
    /\ IF parse_args(argv) = NO_CODE
       THEN main_pc' = "parsed" /\ UNCHANGED exit_code
       ELSE main_pc' = "exited" /\ exit_code' = parse_args(argv)
    /\ UNCHANGED <<runner_vars, segmenter_vars, extractor_vars, validator_vars,
                   argv, test_file, tests, position, printed>>

\* runner = WRPTestRunner(): load_tests raises FileNotFoundError or ValueError,
\* WRPTestCase raises KeyError, or runner.tests is the list of test cases;
\* an exception that leaves main ends the process with exit code 1
LoadTests ==
    /\ main_pc = "parsed"
    /\ IF /\ test_file.exists
          /\ test_file.parses
          /\ \A i \in 1..Len(test_file.tests) : ~RaisesKeyError(test_file.tests[i])
       THEN /\ tests' = [i \in 1..Len(test_file.tests) |-> WRPTestCase(test_file.tests[i])]
            /\ main_pc' = "loop"
            /\ UNCHANGED exit_code
       ELSE /\ main_pc' = "exited"
            /\ exit_code' = 1
            /\ UNCHANGED tests
    /\ UNCHANGED <<runner_vars, segmenter_vars, extractor_vars, validator_vars,
                   argv, test_file, position, printed>>

\* a pass of `for test_case in runner.tests` begins: the line '=== Running'
\* is printed and run_test is called; its steps are those of the runner
RunCase ==
    /\ main_pc = "loop"
    /\ position < Len(tests)
    /\ test_case' = tests[position + 1]
    /\ pc' = "pending"
    /\ main_pc' = "running"
    /\ UNCHANGED <<iteration_count, wait_time, iteration, iterations, successful_runs,
                   child, stdin_text, outcome, work, spawns, sleeps, case_result,
                   segmenter_vars, extractor_vars, validator_vars, argv, test_file,
                   tests, position, printed, exit_code>>

\* run_test has returned: the line 'Passed:' is printed and the pass is over;
\* an exception of run_test leaves main and ends the process with exit code 1
CaseReturns ==
    /\ main_pc = "running"
    /\ pc \in {"done", "raised"}
    /\ IF pc = "done"
       THEN /\ printed' = Append(printed, PrintedVerdict(case_result))
            /\ position' = position + 1
            /\ main_pc' = "loop"
            /\ UNCHANGED exit_code
       ELSE /\ main_pc' = "exited"
            /\ exit_code' = 1
            /\ UNCHANGED <<printed, position>>
    /\ UNCHANGED <<runner_vars, segmenter_vars, extractor_vars, validator_vars,
                   argv, test_file, tests>>

\* the loop is over: main prints the total time and returns, asyncio.run
\* returns, and the interpreter exits with code 0
MainReturns ==
    /\ main_pc = "loop"
    /\ position = Len(tests)
    /\ main_pc' = "exited"
    /\ exit_code' = 0
    /\ UNCHANGED <<runner_vars, segmenter_vars, extractor_vars, validator_vars,
                   argv, test_file, tests, position, printed>>

\* main, and between RunCase and CaseReturns the steps of run_test
NextMain ==
    \/ ParseArgs
    \/ LoadTests
    \/ RunCase
    \/ Next
    \/ CaseReturns
    \/ MainReturns

SpecMain == InitMain /\ [][NextMain]_vars

\* ------------------------------------------------------ the runner's claims

PassedCount(its) == Cardinality({i \in 1..Len(its) : its[i].passed})

\* the last trial is through and recorded, and `outcome` is how its process ended
TrialRecorded ==
    /\ pc \in {"sleep", "loop", "done"}
    /\ iteration >= 1
    /\ outcome.state # "none"

LastIteration == iterations[Len(iterations)]

\* C1: when run_test returns for iteration_count = N >= 1, the case has passed
\* exactly if every recorded iteration has passed; successful_runs counts the
\* passed iterations, and total_runs is N and the number of recorded iterations.
C1_AllOrNothing ==
    (pc = "done" /\ iteration_count >= 1) =>
        /\ case_result.passed <=>
               \A i \in 1..Len(case_result.iterations) : case_result.iterations[i].passed
        /\ case_result.successful_runs = PassedCount(case_result.iterations)
        /\ case_result.total_runs = iteration_count
        /\ case_result.total_runs = Len(case_result.iterations)

\* three iterations, [pass, fail, pass]: the case fails with successful_runs = 2
C1_Witness ==
    /\ pc = "done"
    /\ iteration_count = 3
    /\ [i \in 1..3 |-> case_result.iterations[i].passed] = <<TRUE, FALSE, TRUE>>
    /\ ~case_result.passed
    /\ case_result.successful_runs = 2

\* C2: run_test runs the trial iteration_count times, one after the other; a
\* trial that fails, however it fails, is recorded as a failed iteration, and
\* the run goes on: it ends only when iteration_count trials are recorded.
C2_FailureNeverAborts ==
    /\ Len(iterations) = iteration
    /\ iteration <= iteration_count
    /\ pc = "done" => Len(case_result.iterations) = iteration_count
    /\ pc \in {"done", "raised"} => iteration = iteration_count
    /\ (TrialRecorded /\ outcome.state = "raised") =>
           /\ ~LastIteration.passed
           /\ LastIteration.error = outcome.exc.msg
    /\ \A i \in 1..Len(iterations) : ~iterations[i].passed => iterations[i].error # <<>>

\* a run of three trials whose first trial timed out and whose last one passed
C2_Witness ==
    /\ pc = "done"
    /\ iteration_count = 3
    /\ iterations[1].error = ExecutionFailed(TimedOut(test_case.timeout)).msg
    /\ ~iterations[2].passed
    /\ iterations[3].passed

\* C3: when _execute_wrp_subprocess has spawned a child and has returned or
\* raised, that child is no longer running.
C3_ChildGoneOnReturn ==
    (pc = "executed" /\ child # "none") => child \in {"gone", "exited", "killed"}

\* C4: when the deadline expires and the child is killed, the invocation fails
\* with a timeout-class error whose message names the configured timeout.
C4_TimeoutClassError ==
    (pc = "executed" /\ outcome.deadline /\ child = "killed") =>
        /\ outcome.state = "raised"
        /\ outcome.exc.cls = "TimeoutError"
        /\ \E i \in 1..Len(outcome.exc.msg) : outcome.exc.msg[i] = ToString(test_case.timeout)

\* C5: when the segmenter recovers another number of responses than the test
\* case has turns, the iteration fails with the error that states both counts,
\* no turn is extracted or validated, and no response is kept.
C5_CountMismatchFails ==
    (TrialRecorded /\ outcome.state = "returned"
        /\ Len(extract_response_content(outcome.stdout)) # Len(test_case.turns)) =>
        /\ ~LastIteration.passed
        /\ LastIteration.error =
               <<"Expected ", ToString(Len(test_case.turns)), " responses, got ",
                 ToString(Len(extract_response_content(outcome.stdout)))>>
        /\ work = [extracted |-> 0, validated |-> 0]
        /\ LastIteration.response = <<>>
        /\ LastIteration.json_none

\* a run of a two-turn case with one trial that had one response and one that
\* had three
C5_Witness ==
    /\ pc = "done"
    /\ Len(test_case.turns) = 2
    /\ \E i, j \in 1..Len(iterations) :
           /\ iterations[i].error = <<"Expected ", "2", " responses, got ", "1">>
           /\ iterations[j].error = <<"Expected ", "2", " responses, got ", "3">>

\* --------------------------------------------------- the segmenter's claim

\* text.split("\n")
RECURSIVE SplitLines(_)
SplitLines(text) ==
    LET at == Find(text, <<NL>>, 1)
    IN  IF at = 0 THEN <<text>>
        ELSE <<SubSeq(text, 1, at - 1)>> \o SplitLines(SubSeq(text, at + 1, Len(text)))

\* a line that is the marker: Query: and nothing but whitespace after it
IsMarkerLine(line) == line # <<>> /\ line[1] = QUERY /\ Strip(Tail(line)) = <<>>

\* a line that begins with a terminal marker
IsTerminalLine(line) == HasAt(line, 1, <<EXITING, DOTS>>) \/ HasAt(line, 1, <<SESSION>>)

MentionsQuery(line) == \E i \in 1..Len(line) : line[i] = QUERY

Markers(lines) == {i \in 1..Len(lines) : IsMarkerLine(lines[i])}

\* where the reply to the marker at line i ends: the next marker line, the
\* next terminal marker line, or the end of the input
ReplyEnd(lines, i) ==
    LET stops == {j \in (i + 1)..Len(lines) :
                      IsMarkerLine(lines[j]) \/ IsTerminalLine(lines[j])}
    IN  IF stops = {} THEN Len(lines) + 1
        ELSE CHOOSE j \in stops : \A k \in stops : j <= k

\* the reply body that follows the marker at line i, trimmed
ReplyBody(lines, i) == Strip(JoinLines(SubSeq(lines, i + 1, ReplyEnd(lines, i) - 1)))

\* the replies in the order of their markers
RECURSIVE RepliesFrom(_, _)
RepliesFrom(lines, i) ==
    IF i > Len(lines) THEN <<>>
    ELSE (IF IsMarkerLine(lines[i]) THEN <<ReplyBody(lines, i)>> ELSE <<>>)
             \o RepliesFrom(lines, i + 1)

\* a transcript of a session of K >= 1 turns: Query: only in marker lines,
\* and every marker line followed by a reply body
WellFormed(lines) ==
    /\ Markers(lines) # {}
    /\ \A i \in 1..Len(lines) : MentionsQuery(lines[i]) => IsMarkerLine(lines[i])
    /\ \A i \in Markers(lines) : ReplyBody(lines, i) # <<>>

\* no reply begins with Exiting or Session with
NoReplyLikeAMarker(lines) ==
    \A i \in Markers(lines) :
        ReplyBody(lines, i) # <<>> => ReplyBody(lines, i)[1] \notin {EXITING, SESSION}

Trimmed(text) == text # <<>> /\ text[1] \notin Whitespace /\ text[Len(text)] \notin Whitespace

\* what C6 says of the segmenter's result on a well-formed transcript
AsSubmitted(lines, list) ==
    /\ Len(list) = Cardinality(Markers(lines))
    /\ list = RepliesFrom(lines, 1)
    /\ \A i \in 1..Len(list) : Trimmed(list[i])

\* C6 as stated: for every well-formed transcript of K turns, K marker lines
\* each followed by a reply body, the segmenter returns the K replies, trimmed
\* and not empty, in their order, each ending at the next marker, a terminal
\* marker or the end of the input.
C6_Original ==
    (responses.state = "done" /\ WellFormed(SplitLines(full_output))) =>
        AsSubmitted(SplitLines(full_output), responses.list)

\* C6 as amended: the same, for the transcripts none of whose replies begins
\* with Exiting or Session with.
C6_SegmentsInOrder ==
    (responses.state = "done" /\ WellFormed(SplitLines(full_output))
        /\ NoReplyLikeAMarker(SplitLines(full_output))) =>
        AsSubmitted(SplitLines(full_output), responses.list)

\* two turns with two different replies, and whitespace trimmed off one
C6_Witness ==
    /\ responses.state = "done"
    /\ WellFormed(SplitLines(full_output))
    /\ NoReplyLikeAMarker(SplitLines(full_output))
    /\ Len(responses.list) = 2
    /\ responses.list[1] # responses.list[2]

\* --------------------------------------------------- the extractor's claims

\* where the fenced blocks labeled json open: the fence of each opener that
\* has a closing fence after it
LabeledBlocks(text) ==
    {i \in 1..Len(text) : HasAt(text, i, <<FENCE, JSONLABEL>>)
                              /\ \E j \in (i + 2)..Len(text) : text[j] = FENCE}

\* the content of the labeled block that opens at i: up to the next fence
BlockContent(text, i) ==
    LET close == CHOOSE j \in (i + 2)..Len(text) :
                     text[j] = FENCE /\ \A k \in (i + 2)..(j - 1) : text[k] # FENCE
    IN  SubSeq(text, i + 2, close - 1)

ValidBlocks(text) == {i \in LabeledBlocks(text) : json_loads(BlockContent(text, i)).ok}

\* the first opener  of a labeled block, closed or not (0: none)
FirstLabel(text) == Find(text, <<FENCE, JSONLABEL>>, 1)

\* C7 as stated: for every response that contains a fenced block labeled json
\* with valid JSON content, the extractor returns the parsed value of such a
\* block, whatever else the response contains.
C7_Original ==
    (extraction.state = "done" /\ ValidBlocks(response) # {}) =>
        /\ extraction.result.ok
        /\ \E i \in ValidBlocks(response) :
               extraction.result.val = json_loads(BlockContent(response, i)).val

\* C7 as amended: for every response whose first fenced block labeled json has
\* valid JSON content, the extractor returns the parsed value of that block,
\* whatever else the response contains.
C7_FirstLabeledBlockWins ==
    (extraction.state = "done" /\ FirstLabel(response) \in ValidBlocks(response)) =>
        /\ extraction.result.ok
        /\ extraction.result.val =
               json_loads(BlockContent(response, FirstLabel(response))).val

\* a valid labeled block after an unlabeled fence and a value that parses
C7_Witness ==
    /\ extraction.state = "done"
    /\ FirstLabel(response) \in ValidBlocks(response)
    /\ FirstLabel(response) > 1
    /\ response[1] = FENCE
    /\ json_loads(SubSeq(response, 2, FirstLabel(response) - 1)).ok
    /\ extraction.result.val = <<LBRACK, STR_A, RBRACK>>

Strategies(result) == {result.attempts[i].strategy : i \in 1..Len(result.attempts)}

\* the characters of a preview of `text`
PreviewLen(text, preview) == TextLen(text, 1, preview.whole) + preview.cut

\* C8: when no strategy recovers JSON, the error lists an attempt of each of
\* the four strategies (labeled fenced block, generic fenced block, brace
\* pattern, whole response) and a preview of at most 500 characters.
C8_AllStrategiesListed ==
    (extraction.state = "done" /\ ~extraction.result.ok) =>
        /\ "Markdown JSON blocks" \in Strategies(extraction.result)
        /\ "Generic code blocks" \in Strategies(extraction.result)
        /\ Strategies(extraction.result)
               \cap {"Regex pattern match", "Regex pattern search"} # {}
        /\ "Direct parsing" \in Strategies(extraction.result)
        /\ PreviewLen(response, extraction.result.preview) <= PREVIEW_CHARS

\* the first fence of the response (0: none)
FirstFence(text) == Find(text, <<FENCE>>, 1)

\* the first opener has no fence after it
UnclosedLabeled(text) ==
    FirstLabel(text) # 0 /\ Find(text, <<FENCE>>, FirstLabel(text) + 2) = 0

UnclosedGeneric(text) ==
    FirstFence(text) # 0 /\ Find(text, <<FENCE>>, FirstFence(text) + 1) = 0

Unclosed(strategy) == Attempt(strategy, "no closing fence")

AttemptsOf(result) == {result.attempts[i] : i \in 1..Len(result.attempts)}

\* the opener of the block that no fence closes: the last fence of a response
\* whose fences before it pair up into closed blocks (0: none)
UnclosedOpener(text) ==
    IF Cardinality({i \in 1..Len(text) : text[i] = FENCE}) % 2 = 1
    THEN CHOOSE i \in 1..Len(text) :
             text[i] = FENCE /\ \A j \in (i + 1)..Len(text) : text[j] # FENCE
    ELSE 0

\* C18 as stated: a fenced block, labeled or generic, with an opening
\* delimiter and no closing one, wherever it stands in the response, is
\* recorded as a failed attempt of its strategy: the error of a response
\* without JSON lists the unclosed block for the labeled strategy when the
\* opener carries the label, for the generic strategy when it does not.
C18_Original ==
    (extraction.state = "done" /\ UnclosedOpener(response) # 0 /\ ~extraction.result.ok) =>
        IF HasAt(response, UnclosedOpener(response), <<FENCE, JSONLABEL>>)
        THEN Unclosed("Markdown JSON blocks") \in AttemptsOf(extraction.result)
        ELSE Unclosed("Generic code blocks") \in AttemptsOf(extraction.result)

\* C18 as amended: when the first labeled opener of the response has no fence
\* after it, the labeled strategy records the unclosed block as its failed
\* attempt, and when the first fence of the response has no fence after it,
\* the generic strategy does; the extractor goes on to the next strategy: the
\* error of a response without JSON lists that attempt before those of the
\* later strategies, and a value the brace pattern finds is still returned.
C18_UnclosedFenceRecorded ==
    extraction.state = "done" =>
        /\ (UnclosedLabeled(response) /\ ~extraction.result.ok) =>
               /\ extraction.result.attempts[1] = Unclosed("Markdown JSON blocks")
               /\ Len(extraction.result.attempts) >= 3
        /\ (UnclosedGeneric(response) /\ ~extraction.result.ok) =>
               /\ Unclosed("Generic code blocks") \in AttemptsOf(extraction.result)
               /\ extraction.result.attempts[Len(extraction.result.attempts)].strategy
                      = "Direct parsing"
        /\ (UnclosedGeneric(response) /\ BracePattern(response).ok) =>
               /\ extraction.result.ok
               /\ extraction.result.val = BracePattern(response).val

\* an unclosed labeled opener before prose: the error lists the unclosed
\* block for both fenced strategies, then the brace pattern and the parse
C18_Witness ==
    /\ extraction.state = "done"
    /\ UnclosedLabeled(response)
    /\ ~extraction.result.ok
    /\ [i \in 1..4 |-> extraction.result.attempts[i].strategy]
           = <<"Markdown JSON blocks", "Generic code blocks", "Regex pattern search",
               "Direct parsing">>
    /\ extraction.result.attempts[2] = Unclosed("Generic code blocks")

\* C19: a response that is raw JSON as a whole, with no fenced block, yields
\* the parsed value of the whole trimmed response, whatever the kind of the
\* value, an array of objects included.
C19_RawJsonSupported ==
    (extraction.state = "done" /\ FirstFence(response) = 0
        /\ json_loads(Strip(response)).ok) =>
        /\ extraction.result.ok
        /\ extraction.result.val = json_loads(Strip(response)).val

\* the fences of the response in their order
Fences(text) == {i \in 1..Len(text) : text[i] = FENCE}

\* the fences that open a block: the 1st, the 3rd, ... fence, when a fence
\* follows to close the block
Openers(text) ==
    {i \in Fences(text) :
        /\ Cardinality({j \in Fences(text) : j < i}) % 2 = 0
        /\ \E j \in Fences(text) : j > i}

Closer(text, i) == CHOOSE j \in Fences(text) : j > i /\ \A k \in Fences(text) : k > i => j <= k

\* the blocks whose opener carries no label
UnlabeledBlocks(text) == {i \in Openers(text) : ~HasAt(text, i, <<FENCE, JSONLABEL>>)}

FirstUnlabeled(text) ==
    CHOOSE i \in UnlabeledBlocks(text) : \A j \in UnlabeledBlocks(text) : i <= j

UnlabeledContent(text, i) == Strip(SubSeq(text, i + 1, Closer(text, i) - 1))

\* the labeled strategy yields no value: no labeled opener, no fence after
\* it, or content that is not JSON
NoLabeledValue(text) ==
    \/ FirstLabel(text) = 0
    \/ Find(text, <<FENCE>>, FirstLabel(text) + 2) = 0
    \/ ~json_loads(Strip(SubSeq(text, FirstLabel(text) + 2,
                                Find(text, <<FENCE>>, FirstLabel(text) + 2) - 1))).ok

ReturnsFirstUnlabeled(text, result) ==
    /\ result.ok
    /\ result.val = json_loads(UnlabeledContent(text, FirstUnlabeled(text))).val

\* C22: when the labeled strategy yields no value and the response has an
\* unlabeled fenced block, the first of them with valid JSON content, the
\* extractor returns the parsed content of that block, also after an invalid
\* labeled block and also for content that is not an object.
C22_FirstUnlabeledBlock ==
    (extraction.state = "done" /\ NoLabeledValue(response)
        /\ UnlabeledBlocks(response) # {}
        /\ json_loads(UnlabeledContent(response, FirstUnlabeled(response))).ok) =>
        ReturnsFirstUnlabeled(response, extraction.result)

\* --------------------------------------------------- the validator's claims

\* every expected key is in the value, with the expected value under it
ExpectedMet(val, expected_json) ==
    \A i \in 1..Len(expected_json) :
        /\ HasKey(val, expected_json[i][1])
        /\ ValueAt(val, expected_json[i][1]) = expected_json[i][2]

ExpectedKeys(expected_json) == {expected_json[i][1] : i \in 1..Len(expected_json)}

\* C9: with a non-empty expected-value mapping (and no schema), the validator
\* passes exactly if every key of the mapping is in the extracted value with
\* the expected value under it; what fails, fails with a message that names
\* a key of the mapping.
C9_ExpectedValues ==
    (verdict.state = "done" /\ validation.expected_json # <<>>
        /\ validation.json_schema = EmptySchema) =>
        /\ verdict.result.passed <=>
               ExpectedMet(validation.response_json, validation.expected_json)
        /\ ~verdict.result.passed =>
               /\ verdict.result.key \in ExpectedKeys(validation.expected_json)
               /\ \E i \in 1..Len(ValidationMessage(verdict.result)) :
                      ValidationMessage(verdict.result)[i] = verdict.result.key

\* the schema check, an empty schema counting as passed
SchemaMet(val, json_schema) == json_schema = EmptySchema \/ SchemaValid(val, json_schema)

\* C10: the verdict is the conjunction of the schema check and the
\* expected-value check, an empty schema or mapping counting as passed.
C10_BothChecks ==
    verdict.state = "done" =>
        (verdict.result.passed <=>
            /\ SchemaMet(validation.response_json, validation.json_schema)
            /\ ExpectedMet(validation.response_json, validation.expected_json))

\* both supplied, the schema satisfied, an expected value not met: failed
C10_Witness ==
    /\ verdict.state = "done"
    /\ validation.json_schema # EmptySchema
    /\ validation.expected_json # <<>>
    /\ SchemaValid(validation.response_json, validation.json_schema)
    /\ ~ExpectedMet(validation.response_json, validation.expected_json)
    /\ ~verdict.result.passed

\* ------------------------------------------------- the runner's later claims

\* C11: a run of N iterations with a positive wait time performs exactly
\* N - 1 delays: none before the first trial, none after the last one.
C11_DelaysOnlyBetween ==
    /\ (pc = "done" /\ wait_time > 0 /\ iteration_count >= 1) =>
           sleeps = iteration_count - 1
    /\ (wait_time > 0 /\ iteration = 0) => sleeps = 0
    /\ (wait_time > 0 /\ iteration = iteration_count) => pc # "sleep"

\* C15: the response data of a case result is that of the first iteration that
\* passed, or of the last iteration when none passed; the passed flag depends
\* on the verdicts of the iterations only.
C15_RepresentativeData ==
    pc = "done" =>
        LET its == case_result.iterations
            ok == {i \in 1..Len(its) : its[i].passed}
            from == IF ok = {} THEN Len(its) ELSE CHOOSE i \in ok : \A j \in ok : i <= j
        IN  /\ case_result.response = its[from].response
            /\ case_result.response_json = its[from].response_json
            /\ case_result.json_none = its[from].json_none
            /\ case_result.passed <=> ok = 1..Len(its)

\* a failed iteration, then two that passed with different responses: the data
\* is that of the second iteration
C15_Witness ==
    /\ pc = "done"
    /\ Len(iterations) = 3
    /\ ~iterations[1].passed /\ iterations[2].passed /\ iterations[3].passed
    /\ iterations[2].response # iterations[3].response
    /\ case_result.response = iterations[2].response

\* C16: every recorded iteration result carries an iteration index, and the
\* k-th entry of the iterations list carries the index of the k-th trial.
C16_IterationsIndexed ==
    \A k \in 1..Len(iterations) :
        /\ "iteration" \in DOMAIN iterations[k]
        /\ iterations[k].iteration = k

\* the K prompts in their order, a newline after each, then one quit line
Script(turns) ==
    [i \in 1..(2 * Len(turns) + 2) |->
        IF i = 2 * Len(turns) + 1 THEN QUIT
        ELSE IF i % 2 = 0 THEN NL
        ELSE turns[(i + 1) \div 2].prompt]

\* C17: for a test case of K >= 1 turns the input of the child is the K
\* prompts in declared order, each ended by a newline, then exactly one quit
\* line and nothing after it, for one turn as for several.
C17_ScriptFormat ==
    (pc \in {"spawn", "communicate", "kill", "wait", "executed"} /\ test_case.turns # <<>>) =>
        stdin_text = Script(test_case.turns)

\* a child running on the script of a test case of two turns
C17_Witness ==
    /\ child = "running"
    /\ Len(test_case.turns) = 2
    /\ stdin_text = <<"p1", NL, "p2", NL, QUIT, NL>>

\* the turn's response yields no value, or a value the validator rejects
ExtractionFails(resp) == ~extract_json_from_response(resp).ok

ValidationFails(resp, turn) ==
    ~validate_json_response(extract_json_from_response(resp).val,
                            turn.expected_json, turn.json_schema).passed

TurnFails(resp, turn) == ExtractionFails(resp) \/ ValidationFails(resp, turn)

\* the first turn that fails, 0 when none does
FirstFailing(resps, turns) ==
    LET bad == {i \in 1..Len(turns) : TurnFails(resps[i], turns[i])}
    IN  IF bad = {} THEN 0 ELSE CHOOSE i \in bad : \A j \in bad : i <= j

\* the message of the failure of a turn
FailureMessage(resp, turn) ==
    IF ExtractionFails(resp) THEN ExtractionMessage(extract_json_from_response(resp))
    ELSE ValidationMessage(validate_json_response(extract_json_from_response(resp).val,
                                                  turn.expected_json, turn.json_schema))

Segmented == extract_response_content(outcome.stdout)

\* what C20 says of a trial whose first failing turn is i
StoppedAt(i, resp, turn) ==
    /\ ~LastIteration.passed
    /\ LastIteration.error = <<"Turn ", ToString(i), " failed: ">> \o FailureMessage(resp, turn)
    /\ work.extracted = i
    /\ work.validated <= i

StoppedAtFirst(i, resps, turns) == i # 0 => StoppedAt(i, resps[i], turns[i])

StopsAtFirst(resps, turns) ==
    Len(resps) = Len(turns) => StoppedAtFirst(FirstFailing(resps, turns), resps, turns)

\* C20: the turns are extracted and validated in declared order, and the
\* evaluation stops at the first turn i that fails: the iteration has failed
\* with an error that names i and carries the message of the failure, and no
\* turn after i is extracted or validated.
C20_StopsAtFirstFailure ==
    (TrialRecorded /\ outcome.state = "returned") =>
        StopsAtFirst(Segmented, test_case.turns)

\* the first of two turns fails its validation, and the second one, which
\* would have passed, is not looked at
C20_Witness ==
    /\ TrialRecorded /\ outcome.state = "returned"
    /\ Len(test_case.turns) = 2 /\ Len(Segmented) = 2
    /\ FirstFailing(Segmented, test_case.turns) = 1
    /\ ~TurnFails(Segmented[2], test_case.turns[2])
    /\ work.extracted = 1 /\ work.validated = 1
    /\ SubSeq(LastIteration.error, 1, 3) = <<"Turn ", "1", " failed: ">>

\* what C21 says of a passed iteration result of a test case with `turns`
OneValuePerTurn(result, turns) ==
    /\ Len(result.response) = Len(turns)
    /\ Len(result.response_json) = Len(turns)
    /\ ~result.json_none
    /\ \A i \in 1..Len(turns) :
           /\ ~TurnFails(result.response[i], turns[i])
           /\ result.response_json[i] = extract_json_from_response(result.response[i]).val

\* C21: an iteration result that has passed has one raw response and one
\* extracted value per turn, the i-th value extracted from the i-th response
\* and valid against the i-th turn's expected values and schema.
C21_OneValuePerTurn ==
    \A k \in 1..Len(iterations) :
        iterations[k].passed => OneValuePerTurn(iterations[k], test_case.turns)

\* a passed iteration of the test case of two turns, with two different values
C21_Witness ==
    /\ TrialRecorded
    /\ LastIteration.passed
    /\ Len(test_case.turns) = 2
    /\ Len(LastIteration.response_json) = 2
    /\ LastIteration.response_json[1] # LastIteration.response_json[2]

\* the spawn attempts of the trials that are over, and that of the current one
SpawnsDue ==
    iteration + (IF pc \in {"communicate", "kill", "wait", "executed"} THEN 1 ELSE 0)

\* what is recorded stays as it is
RecordedIsFinal ==
    \A k \in 1..Len(iterations) : k <= Len(iterations') /\ iterations'[k] = iterations[k]

\* C23: for a test case with at least one turn every iteration makes exactly
\* one attempt to spawn a child, N attempts in a run of N iterations; no
\* iteration is run again, and a recorded result is never changed.
C23_OneSpawnPerIteration ==
    /\ [](test_case.turns # <<>> =>
              /\ spawns = SpawnsDue
              /\ pc = "done" => spawns = iteration_count)
    /\ [][RecordedIsFinal]_vars

\* a run of three iterations, the first of them failed, and three spawns
C23_Witness ==
    /\ pc = "done"
    /\ test_case.turns # <<>>
    /\ iteration_count = 3
    /\ ~iterations[1].passed
    /\ iterations[3].passed
    /\ spawns = 3

\* trial number iteration + 1 is running
Running == pc \in {"spawn", "communicate", "kill", "wait", "executed"}

\* the trials run once each, in increasing order
InIndexOrder ==
    /\ iteration' \in {iteration, iteration + 1}
    /\ Running' => iteration' = iteration
    /\ (Running /\ ~Running') => iteration' = iteration + 1

\* C24: a run of N >= 1 iterations goes through its trials 1, ..., N once each
\* and in that order, and it ends, whatever the children do, in one of the two
\* terminal states: all iterations passed, or some failed. A child that is
\* killed at its deadline does not hold the run up.
C24_RunTerminates ==
    /\ [][InIndexOrder]_vars
    /\ [](pc = "done" =>
              /\ iteration = iteration_count
              /\ case_result.passed <=> case_result.error = <<>>)
    /\ (iteration_count >= 1) ~> (pc = "done")

\* a reply the segmenter drops: empty, or led by a terminal phrase
Dropped(reply) == reply = <<>> \/ reply[1] \in {EXITING, SESSION}

\* the sessions of as many replies as `turns`, one of them dropped
SessionsWithDropped(turns) ==
    { Strip(Session(rs)) :
          rs \in { r \in SeqsUpTo({ReplyEmpty, ReplyExiting, ReplyLabeled}, 2) :
                       Len(r) = Len(turns) /\ \E i \in 1..Len(r) : Dropped(r[i]) } }

\* the trial has failed on the number of responses, fewer than the turns
FailedOnCount(turns, resps) ==
    /\ Len(resps) < Len(turns)
    /\ ~LastIteration.passed
    /\ LastIteration.error = CountMismatch(Len(turns), Len(resps)).msg

\* C25: no response of the segmenter is empty or starts with "Exiting" or
\* "Session with"; and a session with an empty reply, or a reply that starts
\* with one of the phrases, has fewer responses than turns, so that its
\* iteration fails with the count-mismatch error.
C25_DroppedReplyMiscounts ==
    (TrialRecorded /\ outcome.state = "returned") =>
        /\ \A i \in 1..Len(Segmented) : ~Dropped(Segmented[i])
        /\ outcome.stdout \in SessionsWithDropped(test_case.turns) =>
               FailedOnCount(test_case.turns, Segmented)

\* the response yields a JSON value that is no object, for a turn that
\* expects values
NonObjectTurn(resp, turn) ==
    /\ extract_json_from_response(resp).ok
    /\ ~IsObject(extract_json_from_response(resp).val)
    /\ turn.expected_json # <<>>

\* the turns before the i-th have passed
ReachedTurn(i, resps, turns) == \A j \in 1..(i - 1) : ~TurnFails(resps[j], turns[j])

\* the trial has failed with an error that names turn i, and run_test goes on
FailedAtTurn(i) ==
    /\ ~LastIteration.passed
    /\ SubSeq(LastIteration.error, 1, 3) = <<"Turn ", ToString(i), " failed: ">>
    /\ pc # "raised"

NonObjectFails(resps, turns) ==
    \A i \in 1..Len(turns) :
        (ReachedTurn(i, resps, turns) /\ NonObjectTurn(resps[i], turns[i])) => FailedAtTurn(i)

\* C26: a turn that expects values and whose response yields a JSON value
\* that is not an object never passes: the iteration has failed with a
\* "Turn i failed" error, and no exception of the validator leaves run_test.
C26_NonObjectNeverPasses ==
    (TrialRecorded /\ outcome.state = "returned" /\ Len(Segmented) = Len(test_case.turns)) =>
        NonObjectFails(Segmented, test_case.turns)

\* the agent has answered the array ["a"]: the lookup of the key "a" in it
\* has raised the type error, reported as the failure of turn 1
C26_Witness ==
    /\ TrialRecorded /\ outcome.state = "returned"
    /\ Segmented = <<ReplyArray>>
    /\ test_case.turns[1].expected_json = ExpectA
    /\ LastIteration.error = <<"Turn ", "1", " failed: ", "indices must be integers">>
    /\ pc # "raised"

\* an iteration result that retains nothing but its error
OnlyError(result) ==
    /\ result.response = <<>>
    /\ result.response_json = <<>>
    /\ result.json_none
    /\ result.error # <<>>

\* C27: an iteration result that has not passed has an empty response and no
\* extracted values, whatever stage failed, and keeps only its error; when
\* no iteration of a case has passed, the case result's response is empty and
\* its response_json is null.
C27_FailuresKeepNothing ==
    /\ \A k \in 1..Len(iterations) : ~iterations[k].passed => OnlyError(iterations[k])
    /\ (pc = "done" /\ successful_runs = 0) =>
           /\ case_result.response = <<>>
           /\ case_result.response_json = <<>>
           /\ case_result.json_none

\* a case of two iterations, none passed: the first failed in a turn, with
\* responses segmented, the second before any output was there
C27_Witness ==
    /\ pc = "done"
    /\ successful_runs = 0
    /\ iteration_count = 2
    /\ iterations[1].error[1] = "Turn "
    /\ outcome.state = "raised"
    /\ case_result.response = <<>>
    /\ case_result.json_none

\* C28: run_test raises only when iteration_count is 0, and then with no
\* iteration recorded and no case result; whenever it returns a case result,
\* iteration_count is at least 1 and that many iterations are recorded, be the
\* test case without turns or the child's output anything.
C28_RaisesOnlyWithoutIterations ==
    /\ pc = "raised" =>
           /\ iteration_count = 0
           /\ iterations = <<>>
           /\ case_result = NoResult
    /\ pc = "done" =>
           /\ iteration_count >= 1
           /\ Len(case_result.iterations) = iteration_count
    /\ (iteration_count = 0 /\ pc # "pending") => pc \in {"loop", "raised"}

\* the test case without turns, run twice: run_test has returned a case
\* result that has not passed
C28_Witness ==
    /\ pc = "done"
    /\ test_case.turns = <<>>
    /\ iteration_count = 2
    /\ ~case_result.passed
    /\ Len(case_result.iterations) = 2

\* ------------------------------------------------ the command line's claims

\* a definition without turns: an empty 'turns' list or no 'turns' key
ZeroTurns(test_data) == "turns" \notin test_data.keys \/ test_data.turns = <<>>

\* the command line is one that parse_args accepts
ArgumentsParse == parse_args(argv) = NO_CODE

\* the file is there, parses, and every definition has its required keys
DefinitionsLoad ==
    /\ test_file.exists
    /\ test_file.parses
    /\ \A i \in 1..Len(test_file.tests) : ~RaisesKeyError(test_file.tests[i])

\* C12: a test definition with zero turns is rejected when the definitions are
\* loaded: loading fails, no test case without turns is in the runner's list
\* and none is run.
C12_ZeroTurnsRejected ==
    /\ \A i \in 1..Len(tests) : tests[i].turns # <<>>
    /\ (main_pc \in {"loop", "exited"} /\ ArgumentsParse /\ \E i \in 1..Len(test_file.tests) : ZeroTurns(test_file.tests[i])) =>
           main_pc = "exited" /\ exit_code # 0 /\ position = 0

\* C14: the process exits with code 0 exactly if every test case it ran has
\* passed; with a failed test case the exit code is not 0.
C14_ExitCodeIsVerdict ==
    (main_pc = "exited" /\ ArgumentsParse /\ DefinitionsLoad) =>
        (exit_code = 0 <=> \A i \in 1..Len(printed) : printed[i].passed)

\* ------------------------------------------------- the subprocess's claims

Contains(text, part) == \E i \in 1..(Len(text) + 1) : HasAt(text, i, part)

\* C13: when the child exits with a non-zero code, the invocation fails with an
\* error that contains the exit code and the captured standard error, whatever
\* the child wrote to its standard output; the transcript is not segmented and
\* the iteration fails.
C13_NonZeroExitReported ==
    /\ (pc = "executed" /\ outcome.returncode \notin {NO_CODE, 0}) =>
           /\ outcome.state = "raised"
           /\ Contains(outcome.exc.msg, <<ToString(outcome.returncode)>>)
           /\ Contains(outcome.exc.msg, outcome.stderr)
    /\ (TrialRecorded /\ outcome.returncode \notin {NO_CODE, 0}) =>
           ~LastIteration.passed /\ work.extracted = 0

====
